---------------------------- MODULE Spec2Model ----------------------------
(***************************************************************************)
(* Model of the System2025 batch scripts: the two synthetic-history        *)
(* generators (generate_amoxicillin_clean.py, "clean", and                 *)
(* generate_amoxicillin_historical_data.py, "hist"), the grouping script   *)
(* (debug_grouping.py) and the verification entry points                   *)
(* (verify_data_quality, check_data_quality.py, verify_fix.py).            *)
(*                                                                         *)
(* Dates are day offsets from 2020-01-01 (a Wednesday).  Floating-point    *)
(* products are computed in fixed point; every scale is named where used.  *)
(***************************************************************************)
EXTENDS Integers, Sequences, FiniteSets, TLC

(***************************************************************************)
(* Bounds of the model (not program constants).                            *)
(***************************************************************************)
\* Longest simulated range, in days (the source's range is 1827 days).
MaxDays == 2
\* Most order items the store holds when a reading script runs.
MaxItems == 2
\* The order ceiling the model runs with.  It stands for the literal 10000
\* of generate_amoxicillin_clean.py:192 and :292, which only ever occurs in
\* the comparison "orders_created > 10000".
MaxOrders == 5

(***************************************************************************)
(* Program constants.                                                      *)
(***************************************************************************)
START_DATE == 0
INITIAL_STOCK == 5000
REORDER_POINT == 200
REORDER_QUANTITY == 1000
BASE_DAILY_SALES == 15
MAX_ORDERS_PER_DAY == 8

\* Initial on-hand values the runs are started with: the source's 5000 and
\* low values on either side of a day's demand.
InitialStocks == {0, 8, 50, INITIAL_STOCK}

\* The simulated ranges <<start_date, end_date>>: the first day of the
\* source's range, and ranges of up to MaxDays days from Saturday 2020-06-06
\* (day 157), where a day has few enough orders for several days to be
\* explored with every draw.
DateRanges ==
  {<<START_DATE, START_DATE>>} \cup {<<157, 157 + n - 1>> : n \in 1 .. MaxDays}

\* Outcomes of random.uniform(0.8, 1.2) the model draws, in tenths.
UniformDraws == {8, 10, 12}
\* Outcomes of random.randint(1, 5) the model draws: both ends of the range.
RandintDraws == {1, 5}

Generators == {"clean", "hist"}
Readers == {"debug_grouping", "verify"}

\* orders_order.status
Statuses == {"pending", "confirmed", "processing", "shipped", "delivered", "cancelled"}

\* order__created_at of the stored items: Sat 4, Sun 5, Mon 6 and Mon 20
\* January 2020.
ItemDates == {3, 4, 5, 19}
ItemQuantities == {1, 2}

\* An orders_orderitem row of medicine 3, joined with its order.
ItemRows == [created_at : ItemDates, quantity : ItemQuantities, status : Statuses]

\* Ids of the accounts_user rows the generator's user query selects from
\* (clean: the sales representatives; hist: the customers).
UserIds == {1, 2}

VARIABLES
  script,           \* which script runs
  pc,               \* position in the script
  start_date,       \* first day of the range
  end_date,         \* last day of the range
  initial_stock,    \* on-hand stock the run starts with
  users,            \* the rows the generator's user query selects from
  paired,           \* whether the run is repeated against an identical store
  stored_before,    \* the store as the script found it
  sales_reps,       \* clean: sales_reps; hist: customers (the fetched list)
  current_date,
  current_stock,
  daily_sales,
  orders_today,
  remaining_sales,
  order_num,        \* index of the for loop over range(orders_today)
  orders_created,
  order_counter,
  orders,           \* rows inserted into orders_order / orders_orderitem
  ledger,           \* rows inserted into inventory_stockmovement
  medicine_stock,   \* inventory_medicine.current_stock of medicine 3
  day_start_stock,  \* current_stock when the day's iteration began
  order_items,      \* rows inserted into orders_orderitem
  store,            \* the committed rows of medicine 3 another connection sees
  outcome,          \* how the script's entry point has ended, once it has
  failed_day,       \* the day on which a write of the run failed
  substituted,      \* the run took a random stock-movement id for the store's
  others,           \* the committed rows of the products other than medicine 3
  run_no,           \* 1, or 2 in the repetition of a paired run
  tape,             \* the draws of the seeded generator, in order
  tape_pos,         \* how many of them the repetition has consumed
  first_run,        \* what the first run of a pair produced
  items,            \* the stored order items of medicine 3 a reader finds
  filtered_items,   \* debug_grouping: the filtered query's rows
  daily_data,       \* debug_grouping: the daily grouping
  weekly_data,      \* debug_grouping: the weekly grouping
  reindexed,        \* debug_grouping: the weekly grouping, reindexed
  reports,          \* verify_data_quality: one report per period type
  min_data_points,  \* service.min_data_points, the configured minimums
  medicine_exists,  \* whether inventory_medicine holds medicine 3
  failing           \* the period types for which prepare_sales_data raises

\* The inputs of a run: no step of a generator changes them.
cfgVars == <<script, start_date, end_date, initial_stock, users, paired, stored_before,
             min_data_points, medicine_exists, failing>>

runVars == <<pc, sales_reps, current_date, current_stock, daily_sales,
             orders_today, remaining_sales, order_num, orders_created,
             order_counter, orders, ledger, medicine_stock, day_start_stock>>

runVarsButPc == <<sales_reps, current_date, current_stock, daily_sales,
                  orders_today, remaining_sales, order_num, orders_created,
                  order_counter, orders, ledger, medicine_stock, day_start_stock>>

pairVars == <<run_no, tape, tape_pos, first_run>>

\* The run's transaction and the way the run ends.
txVars == <<order_items, store, outcome, failed_day, substituted, others>>

readVars == <<filtered_items, daily_data, weekly_data, reindexed, reports>>

vars == <<cfgVars, runVars, pairVars, txVars, items, readVars>>

(***************************************************************************)
(* Calendar.                                                               *)
(***************************************************************************)
Min2(a, b) == IF a <= b THEN a ELSE b
Max2(a, b) == IF a >= b THEN a ELSE b

\* date.weekday(): Monday is 0.  2020-01-01 is a Wednesday.
Weekday(d) == (d + 2) % 7

\* Day of the four-year cycle 2020..2023 (2020 is the leap year).
YearLen(y) == IF y = 0 THEN 366 ELSE 365
RECURSIVE YearOf(_, _)
YearOf(d, y) == IF d < YearLen(y % 4) THEN <<y, d>> ELSE YearOf(d - YearLen(y % 4), y + 1)

MonthLen(y, m) ==
  IF m = 2 THEN (IF y % 4 = 0 THEN 29 ELSE 28)
  ELSE IF m \in {4, 6, 9, 11} THEN 30 ELSE 31

RECURSIVE MonthOf(_, _, _)
MonthOf(y, doy, m) ==
  IF doy < MonthLen(y, m) THEN m ELSE MonthOf(y, doy - MonthLen(y, m), m + 1)

\* date.month of the day at offset d.
Month(d) == LET yd == YearOf(d, 0) IN MonthOf(yd[1], yd[2], 1)

(***************************************************************************)
(* Daily demand.                                                           *)
(***************************************************************************)
\* (1 + 0.08) ** (days / 365.25), times 10^4: one day multiplies by
\* 1.08^(1/365.25) = 1.00021.  Exact to the fourth place over the ranges of
\* the model.
RECURSIVE GrowthFactor(_)
GrowthFactor(days) ==
  IF days = 0 THEN 10000 ELSE (GrowthFactor(days - 1) * 100021) \div 100000

\* clean: seasonal multiplier, in tenths.
SeasonalMultClean(d) ==
  IF Month(d) \in {12, 1, 2} THEN 13
  ELSE IF Month(d) \in {6, 7, 8} THEN 8 ELSE 10

\* clean: weekday multiplier, in tenths.
WeekdayMultClean(d) == IF Weekday(d) = 6 THEN 7 ELSE 10

\* hist: get_season and seasonal_multipliers, in tenths.
SeasonalMultHist(d) ==
  IF Month(d) \in {12, 1, 2} THEN 13
  ELSE IF Month(d) \in {3, 4, 5} THEN 9
  ELSE IF Month(d) \in {6, 7, 8} THEN 8 ELSE 11

\* hist: weekday_multipliers, in tenths.
WeekdayMultHist(d) == <<7, 9, 10, 11, 12, 6, 4>>[Weekday(d) + 1]

\* The product base * seasonal * weekday * growth * uniform, times SalesScale
\* (tenths, tenths, GrowthFactor's 10^4, tenths).
SalesProduct(base, seas, wd, days, u) ==
  base * seas * wd * GrowthFactor(days) * u

SalesScale == 10 * 10 * 10000 * 10

\* clean: max(1, int(product)).
DailySalesClean(d, days, u) ==
  Max2(1, SalesProduct(BASE_DAILY_SALES, SeasonalMultClean(d), WeekdayMultClean(d), days, u)
            \div SalesScale)

\* round(): to the nearest integer, a tie to the even one.
RoundHalfEven(num, scale) ==
  LET q == num \div scale
      r == num % scale
  IN  IF 2 * r > scale THEN q + 1
      ELSE IF 2 * r < scale THEN q
      ELSE IF q % 2 = 0 THEN q ELSE q + 1

\* hist: calculate_daily_sales, max(1, int(round(sales))).
DailySalesHist(d, days, u) ==
  Max2(1, RoundHalfEven(
            SalesProduct(BASE_DAILY_SALES, SeasonalMultHist(d), WeekdayMultHist(d), days, u)
              \div 1000,
            SalesScale \div 1000))

\* The day's demand on date d, `days` days after the start of the range.
calculate_daily_sales(s, d, days, u) ==
  IF s = "clean" THEN DailySalesClean(d, days, u) ELSE DailySalesHist(d, days, u)

(***************************************************************************)
(* Stock check and order splitting.                                        *)
(***************************************************************************)
\* Mutant of ReorderNeeded: no reorder is ever made.
ReorderNever(stock, sales) == FALSE

\* Mutant of ReorderNeeded: the reorder quantity is taken for the reorder
\* point, and the comparison with the day's demand is left out.
ReorderNeededByQuantity(stock, sales) == stock <= REORDER_QUANTITY

\* The condition under which the day's reorder is made.
\* clean: current_stock < daily_sales and current_stock <= 200.
\* hist:  the same two tests, nested.
ReorderNeeded(stock, sales) == stock < sales /\ stock <= REORDER_POINT

\* Number of iterations of the day's for loop.
OrdersToday(s, sales) ==
  IF s = "clean" THEN Min2(Max2(1, sales \div 3), MAX_ORDERS_PER_DAY)
  ELSE Max2(1, sales \div 3)

\* Mutant of OrderQty: the draw is capped by the stock alone.
OrderQtyIgnoringDemand(r, remaining, stock) == Min2(r, stock)

\* Mutant of OrderQty: the draw is used as it comes, without its two caps.
OrderQtyUncapped(r, remaining, stock) == r

\* order_qty = min(random.randint(1, 5), remaining_sales, current_stock)
OrderQty(r, remaining, stock) == Min2(Min2(r, remaining), stock)

\* The test that leaves the for loop before a draw is made.
LoopBreak(s, remaining, stock) ==
  IF s = "clean" THEN remaining <= 0 \/ stock <= 0 ELSE remaining <= 0

\* The safety check of the clean generator, made before an order is created.
LimitReached(s, created) == s = "clean" /\ created > MaxOrders

\* Mutant of Movement: no quantity is recorded.
MovementWithoutQuantity(type, qty, day, ref) ==
  [type |-> type, quantity |-> 0, day |-> day, ref |-> ref]

\* Mutant of Movement: the quantity is recorded without its sign.
MovementUnsigned(type, qty, day, ref) ==
  [type |-> type, quantity |-> Max2(qty, -qty), day |-> day, ref |-> ref]

Movement(type, qty, day, ref) == [type |-> type, quantity |-> qty, day |-> day, ref |-> ref]

(***************************************************************************)
(* The generation run.                                                     *)
(***************************************************************************)
\* All orderings of a set: the outcomes of ORDER BY RANDOM().
Orderings(S) ==
  {f \in [1 .. Cardinality(S) -> S] : \A i, j \in DOMAIN f : f[i] = f[j] => i = j}

\* Whether the script's draws come from a generator it has seeded:
\* clean calls random.seed(42) before its loop, hist never seeds.
Seeded(s) == s = "clean"

Recording == paired /\ run_no = 1 /\ Seeded(script)
Replaying == paired /\ run_no = 2 /\ Seeded(script)

\* A seeded generator repeats, in the second run, the draws of the first.
DrawIs(x) == Replaying => (tape_pos < Len(tape) /\ tape[tape_pos + 1] = x)

TapeAfter(x) ==
  /\ tape' = IF Recording THEN Append(tape, x) ELSE tape
  /\ tape_pos' = IF Replaying THEN tape_pos + 1 ELSE tape_pos

\* service.min_data_points as the service configures it.
MinDataPointsTable == [daily |-> 30, weekly |-> 8, monthly |-> 3]

\* The verifier's surroundings when nothing is wrong with them.
VerifierDefaults ==
  /\ min_data_points = MinDataPointsTable
  /\ medicine_exists = TRUE
  /\ failing = {}

ReadStart ==
  /\ filtered_items = <<>>
  /\ daily_data = <<>>
  /\ weekly_data = <<>>
  /\ reindexed = <<>>
  /\ reports = <<>>

\* The store without any order, order item or stock movement of medicine 3.
EmptyStore == [orders |-> <<>>, order_items |-> <<>>, ledger |-> <<>>]

\* The store without any row of another product.
NoOthers == [orders |-> <<>>, order_items |-> <<>>, history |-> <<>>, ledger |-> <<>>]

RunStart(stock) ==
  /\ pc = "start"
  /\ sales_reps = <<>>
  /\ current_date = start_date
  /\ current_stock = stock
  /\ daily_sales = 0
  /\ orders_today = 0
  /\ remaining_sales = 0
  /\ order_num = 0
  /\ orders_created = 0
  /\ order_counter = 0
  /\ orders = <<>>
  /\ ledger = <<>>
  /\ medicine_stock = 0
  /\ day_start_stock = stock
  /\ order_items = <<>>
  /\ outcome = "running"
  /\ failed_day = <<>>
  /\ substituted = FALSE

GenInit ==
  /\ script \in Generators
  /\ \E range \in DateRanges : start_date = range[1] /\ end_date = range[2]
  /\ initial_stock \in InitialStocks
  /\ users = {1}
  /\ paired = FALSE
  /\ RunStart(initial_stock)
  /\ store = EmptyStore
  /\ stored_before = store
  /\ others = NoOthers
  /\ run_no = 1
  /\ tape = <<>>
  /\ tape_pos = 0
  /\ first_run = <<>>
  /\ items = <<>>
  /\ ReadStart
  /\ VerifierDefaults

\* The order of the opening steps.  clean: sales reps, clearing, next id.
\* hist: main() clears first, create_historical_orders then fetches the
\* users and the next id.
UsersAt(s) == IF s = "clean" THEN "start" ELSE "users"
AfterUsers(s) == IF s = "clean" THEN "clear" ELSE "next_id"
ClearAt(s) == IF s = "clean" THEN "clear" ELSE "start"
AfterClear(s) == IF s = "clean" THEN "next_id" ELSE "users"

\* The LIMIT of the user query: 3 sales representatives (clean), 50
\* customers (hist).
UserLimit(s) == IF s = "clean" THEN 3 ELSE 50

\* The first rows of a result, up to the limit.
Limited(f, limit) == SubSeq(f, 1, Min2(Len(f), limit))

\* get_available_sales_reps / get_available_users: the list comes back in
\* the order ORDER BY RANDOM() gives it, cut at the query's LIMIT.
GetUsers ==
  /\ script \in Generators
  /\ pc = UsersAt(script)
  /\ sales_reps' \in {Limited(f, UserLimit(script)) : f \in Orderings(users)}
  /\ pc' = AfterUsers(script)
  /\ UNCHANGED <<current_date, current_stock, daily_sales, orders_today,
                 remaining_sales, order_num, orders_created, order_counter,
                 orders, ledger, medicine_stock, day_start_stock>>
  /\ UNCHANGED <<cfgVars, pairVars, txVars, items, readVars>>

\* while current_date <= end_date: the day's demand is computed.
DayBegin ==
  /\ pc = "loop"
  /\ current_date <= end_date
  /\ \E u \in UniformDraws :
       /\ DrawIs(u)
       /\ TapeAfter(u)
       /\ daily_sales' =
            calculate_daily_sales(script, current_date, current_date - start_date, u)
  /\ day_start_stock' = current_stock
  /\ pc' = "stock_check"
  /\ UNCHANGED <<sales_reps, current_date, current_stock, orders_today,
                 remaining_sales, order_num, orders_created, order_counter,
                 orders, ledger, medicine_stock>>
  /\ UNCHANGED <<cfgVars, run_no, first_run, txVars, items, readVars>>

\* The reorder check, then the set-up of the day's for loop.
StockCheck ==
  /\ pc = "stock_check"
  /\ IF ReorderNeeded(current_stock, daily_sales)
     THEN /\ current_stock' = current_stock + REORDER_QUANTITY
          /\ ledger' = Append(ledger,
                         Movement("in", REORDER_QUANTITY, current_date, <<"REORDER", current_date>>))
     ELSE UNCHANGED <<current_stock, ledger>>
  /\ orders_today' = OrdersToday(script, daily_sales)
  /\ remaining_sales' = daily_sales
  /\ order_num' = 0
  /\ pc' = "orders"
  /\ UNCHANGED <<sales_reps, current_date, daily_sales, orders_created,
                 order_counter, orders, medicine_stock, day_start_stock>>
  /\ UNCHANGED <<cfgVars, pairVars, txVars, items, readVars>>

\* CAST(SUBSTR(order_number, 2) AS INTEGER): the digits of a clean number are
\* its date followed by the four digits of its counter.
OrderNumberValue(n) == IF Len(n) = 1 THEN n[1] ELSE n[1] * 10000 + n[2]

\* SELECT MAX(...) FROM orders_order, or 0 when there is no row.
RECURSIVE MaxOrderNumber(_)
MaxOrderNumber(rows) ==
  IF rows = <<>> THEN 0
  ELSE Max2(OrderNumberValue(Head(rows).number), MaxOrderNumber(Tail(rows)))

\* clean: O<date><order_counter>; hist: get_next_order_number reads the
\* store's maximum on a connection of its own, which sees committed rows only.
OrderNumber(s, day, counter, committed) ==
  IF s = "clean" THEN <<day, counter>> ELSE <<MaxOrderNumber(committed) + 1>>

\* One iteration of the for loop that creates an order, its item, its status
\* history and its 'out' movement.
CreateOrder ==
  /\ pc = "orders"
  /\ order_num < orders_today
  /\ ~LoopBreak(script, remaining_sales, current_stock)
  /\ \E r \in RandintDraws, c \in 1 .. Len(sales_reps) :
       LET order_qty == OrderQty(r, remaining_sales, current_stock)
           number == OrderNumber(script, current_date, order_counter + 1,
                                 store.orders \o others.orders)
       IN  /\ order_qty > 0
           /\ ~LimitReached(script, orders_created)
           /\ DrawIs(<<r, c>>)
           /\ TapeAfter(<<r, c>>)
           /\ order_counter' = IF script = "clean" THEN order_counter + 1 ELSE order_counter
           /\ orders' = Append(orders,
                          [number |-> number, quantity |-> order_qty,
                           day |-> current_date, user |-> sales_reps[c]])
           /\ order_items' = Append(order_items, [order |-> number, quantity |-> order_qty])
           /\ current_stock' = current_stock - order_qty
           /\ remaining_sales' = remaining_sales - order_qty
           /\ orders_created' = orders_created + 1
           /\ ledger' = Append(ledger, Movement("out", -order_qty, current_date, number))
  /\ order_num' = order_num + 1
  /\ UNCHANGED <<pc, sales_reps, current_date, daily_sales, orders_today,
                 medicine_stock, day_start_stock>>
  /\ UNCHANGED <<store, outcome, failed_day, substituted, others>>
  /\ UNCHANGED <<cfgVars, run_no, first_run, items, readVars>>

\* The for loop ends: its range is exhausted, or one of its break statements
\* is taken.
LoopEnd ==
  /\ pc = "orders"
  /\ \/ order_num >= orders_today
     \/ LoopBreak(script, remaining_sales, current_stock)
     \/ \E r \in RandintDraws : OrderQty(r, remaining_sales, current_stock) <= 0
     \/ LimitReached(script, orders_created)
  /\ pc' = "day_end"
  /\ UNCHANGED <<sales_reps, current_date, current_stock, daily_sales,
                 orders_today, remaining_sales, order_num, orders_created,
                 order_counter, orders, ledger, medicine_stock, day_start_stock>>
  /\ UNCHANGED <<cfgVars, pairVars, txVars, items, readVars>>

\* Mutant of NextDay: the date is not advanced.
SameDay(d) == d

\* current_date += timedelta(days=1)
NextDay(d) == d + 1

\* After the for loop: leave the while loop at the limit (clean), or go on to
\* the next day.
DayEnd ==
  /\ pc = "day_end"
  /\ IF LimitReached(script, orders_created)
     THEN /\ pc' = "update"
          /\ UNCHANGED current_date
     ELSE /\ pc' = "loop"
          /\ current_date' = NextDay(current_date)
  /\ UNCHANGED <<sales_reps, current_stock, daily_sales, orders_today,
                 remaining_sales, order_num, orders_created, order_counter,
                 orders, ledger, medicine_stock, day_start_stock>>
  /\ UNCHANGED <<cfgVars, pairVars, txVars, items, readVars>>

\* The while loop's condition fails.
RangeEnd ==
  /\ pc = "loop"
  /\ current_date > end_date
  /\ pc' = "update"
  /\ UNCHANGED <<sales_reps, current_date, current_stock, daily_sales,
                 orders_today, remaining_sales, order_num, orders_created,
                 order_counter, orders, ledger, medicine_stock, day_start_stock>>
  /\ UNCHANGED <<cfgVars, pairVars, txVars, items, readVars>>

\* Mutant of Committed: the stock movements are left out of the commit.
CommittedWithoutLedger(before, o, i, l) ==
  [orders |-> before.orders \o o, order_items |-> before.order_items \o i,
   ledger |-> before.ledger]

\* conn.commit(): every row the connection has inserted since it was opened
\* becomes part of the store, together.
Committed(before, o, i, l) ==
  [orders |-> before.orders \o o, order_items |-> before.order_items \o i,
   ledger |-> before.ledger \o l]

\* UPDATE inventory_medicine SET current_stock = ?; conn.commit().
UpdateStock ==
  /\ pc = "update"
  /\ medicine_stock' = current_stock
  /\ store' = Committed(store, orders, order_items, ledger)
  /\ outcome' = "completed"
  /\ pc' = "done"
  /\ UNCHANGED <<sales_reps, current_date, current_stock, daily_sales,
                 orders_today, remaining_sales, order_num, orders_created,
                 order_counter, orders, ledger, day_start_stock>>
  /\ UNCHANGED <<order_items, failed_day, substituted, others>>
  /\ UNCHANGED <<cfgVars, pairVars, items, readVars>>

\* Ids of the accounts_user rows whose role is sales_rep, pharmacist_admin
\* or admin.
RoleUserIds == 1 .. 4

\* The sales representatives whose orders the clearing deletes.  clean: the
\* ones the run has selected; hist: every user with one of the three roles.
ClearedReps(s, selected) ==
  IF s = "clean" THEN {selected[i] : i \in DOMAIN selected} ELSE RoleUserIds

\* The medicine's rows after the first k DELETE statements of the clearing:
\* the order items of medicine 3, the status history of the representatives'
\* orders, those orders, the stock movements of medicine 3.  An order of the
\* clean generator has the selected representative in sales_rep_id; every
\* order of the hist generator has a user with one of the roles there.
ClearedStore(k, s, reps, st) ==
  [orders |-> IF k >= 3
              THEN SelectSeq(st.orders, LAMBDA o : ~(s = "hist" \/ o.user \in reps))
              ELSE st.orders,
   order_items |-> IF k >= 1 THEN <<>> ELSE st.order_items,
   ledger |-> IF k >= 4 THEN <<>> ELSE st.ledger]

\* The rows of the other products after the first k DELETE statements.
ClearedOthers(k, reps, oth) ==
  [orders |-> IF k >= 3
              THEN SelectSeq(oth.orders, LAMBDA o : o.sales_rep \notin reps)
              ELSE oth.orders,
   order_items |-> oth.order_items,
   history |-> IF k >= 2
               THEN SelectSeq(oth.history,
                      LAMBDA h : ~\E i \in DOMAIN oth.orders :
                                   /\ oth.orders[i].number = h.order
                                   /\ oth.orders[i].sales_rep \in reps)
               ELSE oth.history,
   ledger |-> oth.ledger]

\* "Clearing existing data": the four DELETE statements, on Django's
\* connection, which commits each statement.
ClearHistory ==
  /\ script \in Generators
  /\ pc = ClearAt(script)
  /\ store' = ClearedStore(4, script, ClearedReps(script, sales_reps), store)
  /\ others' = ClearedOthers(4, ClearedReps(script, sales_reps), others)
  /\ pc' = AfterClear(script)
  /\ UNCHANGED <<order_items, outcome, failed_day, substituted>>
  /\ UNCHANGED <<cfgVars, runVarsButPc, pairVars, items, readVars>>

\* get_next_stock_movement_id: the store answers.
GetNextStockMovementId ==
  /\ script \in Generators
  /\ pc = "next_id"
  /\ pc' = "loop"
  /\ UNCHANGED <<cfgVars, runVarsButPc, pairVars, txVars, items, readVars>>

GenNext ==
  \/ GetUsers
  \/ ClearHistory
  \/ GetNextStockMovementId
  \/ DayBegin
  \/ StockCheck
  \/ CreateOrder
  \/ LoopEnd
  \/ DayEnd
  \/ RangeEnd
  \/ UpdateStock

(***************************************************************************)
(* Grouping and reindexing (debug_grouping.py).                            *)
(***************************************************************************)
\* Mutant of REALIZED_STATUSES: pending orders pass the filter too.
RealizedOrPending == {"pending", "confirmed", "processing", "shipped", "delivered"}

\* order__status__in=['confirmed', 'processing', 'shipped', 'delivered']
REALIZED_STATUSES == {"confirmed", "processing", "shipped", "delivered"}

\* .order_by('order__created_at'): the rows in ascending date order, rows of
\* one date in stored order.
RECURSIVE OrderByCreatedAt(_)
OrderByCreatedAt(rows) ==
  IF rows = <<>> THEN <<>>
  ELSE LET first == CHOOSE i \in DOMAIN rows :
                      \A j \in DOMAIN rows :
                        \/ rows[i].created_at < rows[j].created_at
                        \/ (rows[i].created_at = rows[j].created_at /\ i <= j)
           rest == [k \in 1 .. Len(rows) - 1 |-> IF k < first THEN rows[k] ELSE rows[k + 1]]
       IN  <<rows[first]>> \o OrderByCreatedAt(rest)

\* OrderItem.objects.filter(medicine_id=3, order__status__in=[...])
\*   .values('order__created_at', 'quantity').order_by('order__created_at')
FilterItems(rows) ==
  OrderByCreatedAt(SelectSeq(rows, LAMBDA r : r.status \in REALIZED_STATUSES))

\* A finite set of dates in ascending order.
RECURSIVE Ascending(_)
Ascending(S) ==
  IF S = {} THEN <<>>
  ELSE LET m == CHOOSE x \in S : \A y \in S : x <= y
       IN  <<m>> \o Ascending(S \ {m})

\* to_period('D').to_timestamp(): the day itself.
DayPeriod(d) == d

\* to_period('W').to_timestamp(): the week ends on Sunday, its start is the
\* Monday.
WeekPeriod(d) == d - Weekday(d)

\* Day of the month, from 1, of the day doy days into year y.
RECURSIVE DayInMonth(_, _, _)
DayInMonth(y, doy, m) ==
  IF doy < MonthLen(y, m) THEN doy + 1 ELSE DayInMonth(y, doy - MonthLen(y, m), m + 1)

\* The first day of the month of d.
MonthPeriod(d) == LET yd == YearOf(d, 0) IN d - DayInMonth(yd[1], yd[2], 1) + 1

\* dt.to_period(freq) followed by to_timestamp(): the start of the period.
ToPeriod(freq, d) ==
  IF freq = "D" THEN DayPeriod(d)
  ELSE IF freq = "W" THEN WeekPeriod(d)
  ELSE MonthPeriod(d)

RECURSIVE SumWhere(_, _, _, _)
\* The sum of the quantities of the first n rows whose period is key.
SumWhere(rows, n, freq, key) ==
  IF n = 0 THEN 0
  ELSE SumWhere(rows, n - 1, freq, key)
         + (IF ToPeriod(freq, rows[n].created_at) = key THEN rows[n].quantity ELSE 0)

\* df.groupby(df[...].dt.to_period(freq))['quantity'].sum(), its index
\* turned to timestamps and reset: one row per period that holds a record,
\* ascending.
GroupByPeriod(rows, freq) ==
  LET keys == Ascending({ToPeriod(freq, rows[i].created_at) : i \in DOMAIN rows})
  IN  [k \in DOMAIN keys |->
         [date |-> keys[k], quantity |-> SumWhere(rows, Len(rows), freq, keys[k])]]

\* pd.date_range(start, end, freq='W'): 'W' is anchored on Sunday, so these
\* are the Sundays from start to end.
DateRangeW(start, end) ==
  LET first == start + ((6 - Weekday(start)) % 7)
      n == IF first > end THEN 0 ELSE ((end - first) \div 7) + 1
  IN  [k \in 1 .. n |-> first + 7 * (k - 1)]

\* series.set_index('date').reindex(index, fill_value=0).reset_index()
Reindex(series, index) ==
  [k \in DOMAIN index |->
     [date |-> index[k],
      quantity |-> IF \E i \in DOMAIN series : series[i].date = index[k]
                   THEN series[CHOOSE i \in DOMAIN series : series[i].date = index[k]].quantity
                   ELSE 0]]

\* What no step of a reading script changes.
ReaderFrame ==
  UNCHANGED <<cfgVars, pairVars, txVars, items, sales_reps, current_date, current_stock,
              daily_sales, orders_today, remaining_sales, order_num, orders_created,
              order_counter, orders, ledger, medicine_stock, day_start_stock>>

\* The filtered query; nothing more happens when it has no rows.
Fetch ==
  /\ script = "debug_grouping"
  /\ pc = "start"
  /\ filtered_items' = FilterItems(items)
  /\ pc' = IF filtered_items' = <<>> THEN "done" ELSE "daily"
  /\ UNCHANGED <<daily_data, weekly_data, reindexed, reports>>
  /\ ReaderFrame

\* "Test daily grouping"
GroupDaily ==
  /\ script = "debug_grouping"
  /\ pc = "daily"
  /\ daily_data' = GroupByPeriod(filtered_items, "D")
  /\ pc' = "weekly"
  /\ UNCHANGED <<filtered_items, weekly_data, reindexed, reports>>
  /\ ReaderFrame

\* "Test weekly grouping"
GroupWeekly ==
  /\ script = "debug_grouping"
  /\ pc = "weekly"
  /\ weekly_data' = GroupByPeriod(filtered_items, "W")
  /\ pc' = "reindex"
  /\ UNCHANGED <<filtered_items, daily_data, reindexed, reports>>
  /\ ReaderFrame

\* "Testing reindexing"
ReindexWeekly ==
  /\ script = "debug_grouping"
  /\ pc = "reindex"
  /\ reindexed' = Reindex(weekly_data,
                          DateRangeW(weekly_data[1].date, weekly_data[Len(weekly_data)].date))
  /\ pc' = "done"
  /\ UNCHANGED <<filtered_items, daily_data, weekly_data, reports>>
  /\ ReaderFrame

DebugNext == Fetch \/ GroupDaily \/ GroupWeekly \/ ReindexWeekly

\* What a whole run of debug_grouping computes from the stored rows:
\* <<filtered items, daily grouping, weekly grouping, reindexed weekly>>.
debug_grouping(rows) ==
  LET f == FilterItems(rows)
      weekly == GroupByPeriod(f, "W")
  IN  IF f = <<>> THEN <<f, <<>>, <<>>, <<>>>>
      ELSE <<f, GroupByPeriod(f, "D"), weekly,
             Reindex(weekly, DateRangeW(weekly[1].date, weekly[Len(weekly)].date))>>

(***************************************************************************)
(* The quality verifier (verify_data_quality).                             *)
(***************************************************************************)
PERIOD_TYPES == <<"daily", "weekly", "monthly">>

\* The pandas frequency of a period type.
Frequency(period_type) ==
  IF period_type = "daily" THEN "D" ELSE IF period_type = "weekly" THEN "W" ELSE "M"

\* The start of the period that follows the one starting at p.
NextPeriod(period_type, p) ==
  IF period_type = "daily" THEN p + 1
  ELSE IF period_type = "weekly" THEN p + 7
  ELSE LET yd == YearOf(p, 0) IN p + MonthLen(yd[1], Month(p))

\* Every period boundary from first to last, in order.
RECURSIVE PeriodRange(_, _, _)
PeriodRange(period_type, first, last) ==
  IF first > last THEN <<>>
  ELSE <<first>> \o PeriodRange(period_type, NextPeriod(period_type, first), last)

\* ARIMAForecastingService.prepare_sales_data: fetch, bucket, reindex; an
\* empty sequence when there is no realized record.
prepare_sales_data(rows, period_type) ==
  LET realized == FilterItems(rows)
      grouped == GroupByPeriod(realized, Frequency(period_type))
  IN  IF realized = <<>> THEN <<>>
      ELSE Reindex(grouped,
                   PeriodRange(period_type, grouped[1].date, grouped[Len(grouped)].date))

\* service.min_data_points.get(period_type, 30)
MinDataPoints(period_type) ==
  IF period_type \in DOMAIN min_data_points THEN min_data_points[period_type] ELSE 30

\* Mutant of NonZero: every period is counted, the empty ones too.
CountAll(data) == Len(data)

\* (data['quantity'] > 0).sum()
NonZero(data) == Cardinality({i \in DOMAIN data : data[i].quantity > 0})

\* non_zero/total*100 as "{:.1f}" prints it, in tenths of a percent.
Percent(non_zero, total) == RoundHalfEven(non_zero * 1000, total)

\* What the body of the loop over the period types can do with the data;
\* percent is the printed percentage where one is printed, and 0 otherwise.
\* With total = 0 the quotient non_zero/total is still evaluated: on numpy
\* integers it is nan (and the comparison below goes on), on Python integers
\* it raises ZeroDivisionError, which the except clause of the loop body
\* reports as an error for that period type.
PeriodReports(period_type, data) ==
  LET total == Len(data)
      non_zero == NonZero(data)
      verdict == IF non_zero >= MinDataPoints(period_type) THEN "sufficient"
                 ELSE "insufficient"
  IN  IF total = 0
      THEN {[period |-> period_type, total |-> 0, non_zero |-> non_zero,
             percent |-> 0, percent_is_nan |-> TRUE, divided_by_zero |-> TRUE,
             outcome |-> verdict],
            [period |-> period_type, total |-> 0, non_zero |-> non_zero,
             percent |-> 0, percent_is_nan |-> FALSE, divided_by_zero |-> TRUE,
             outcome |-> "error"]}
      ELSE {[period |-> period_type, total |-> total, non_zero |-> non_zero,
             percent |-> Percent(non_zero, total), percent_is_nan |-> FALSE,
             divided_by_zero |-> FALSE, outcome |-> verdict]}

\* What the except clause of a loop body leaves as the period's report.
ErrorReport(period_type) ==
  [period |-> period_type, total |-> 0, non_zero |-> 0, percent |-> 0,
   percent_is_nan |-> FALSE, divided_by_zero |-> FALSE, outcome |-> "error"]

\* The body of verify_data_quality's loop for one period type: when
\* prepare_sales_data raises, the except clause reports the error.
PeriodOutcomes(period_type) ==
  IF period_type \in failing THEN {ErrorReport(period_type)}
  ELSE PeriodReports(period_type, prepare_sales_data(items, period_type))

\* One pass of "for period_type in ['daily', 'weekly', 'monthly']".
VerifyPeriod ==
  /\ script = "verify"
  /\ pc \in {"start", "verify"}
  /\ Len(reports) < Len(PERIOD_TYPES)
  /\ LET period_type == PERIOD_TYPES[Len(reports) + 1]
     IN  \E report \in PeriodOutcomes(period_type) :
           reports' = Append(reports, report)
  /\ pc' = IF Len(reports') = Len(PERIOD_TYPES) THEN "done" ELSE "verify"
  /\ UNCHANGED <<filtered_items, daily_data, weekly_data, reindexed>>
  /\ ReaderFrame

VerifyNext == VerifyPeriod

(***************************************************************************)
(* The other verification entry points: check_data_quality.py and          *)
(* verify_fix.py.                                                          *)
(***************************************************************************)
Verifiers == {"verify", "check_data_quality", "verify_fix"}

\* What no step of these two scripts changes.
VerifierFrame ==
  UNCHANGED <<cfgVars, runVarsButPc, pairVars, items, filtered_items, daily_data,
              weekly_data, reindexed, order_items, store, failed_day, substituted, others>>

\* check_data_quality: Medicine.objects.get(id=3), outside any try block.
\* Medicine.DoesNotExist leaves the function and the script.
CheckMedicine ==
  /\ script = "check_data_quality"
  /\ pc = "start"
  /\ IF medicine_exists
     THEN pc' = "check" /\ UNCHANGED outcome
     ELSE pc' = "done" /\ outcome' = "raised"
  /\ UNCHANGED reports
  /\ VerifierFrame

\* The body of check_data_quality's loop: shape, minimum, maximum, mean and
\* the counts of non-zero and zero values; no percentage and no verdict.
\* An empty result either prints nan statistics or raises on its missing
\* column, which the except clause reports.
CheckReports(period_type, data) ==
  LET printed == [period |-> period_type, total |-> Len(data), non_zero |-> NonZero(data),
                  percent |-> 0, percent_is_nan |-> FALSE, divided_by_zero |-> FALSE,
                  outcome |-> "reported"]
  IN  IF period_type \in failing THEN {ErrorReport(period_type)}
      ELSE IF Len(data) = 0 THEN {printed, ErrorReport(period_type)}
      ELSE {printed}

\* One pass of check_data_quality's loop over the period types.
CheckPeriod ==
  /\ script = "check_data_quality"
  /\ pc = "check"
  /\ Len(reports) < Len(PERIOD_TYPES)
  /\ LET period_type == PERIOD_TYPES[Len(reports) + 1]
     IN  \E report \in CheckReports(period_type, prepare_sales_data(items, period_type)) :
           reports' = Append(reports, report)
  /\ pc' = IF Len(reports') = Len(PERIOD_TYPES) THEN "done" ELSE "check"
  /\ UNCHANGED outcome
  /\ VerifierFrame

\* verify_fix: the weekly and the monthly data are prepared and written to
\* the results file inside one try block; any exception in it (a failing
\* preparation, the quotient by the length of an empty series) ends in the
\* except clause, which writes the error file instead.
VerifyFix ==
  /\ script = "verify_fix"
  /\ pc = "start"
  /\ \E weekly \in PeriodOutcomes("weekly"), monthly \in PeriodOutcomes("monthly") :
       reports' =
         IF weekly.outcome = "error" THEN <<ErrorReport("weekly")>>
         ELSE IF monthly.outcome = "error" THEN <<ErrorReport("monthly")>>
         ELSE <<[weekly EXCEPT !.outcome = "reported"],
                [monthly EXCEPT !.outcome = "reported"]>>
  /\ pc' = "done"
  /\ UNCHANGED outcome
  /\ VerifierFrame

\* The period types an entry point reports on.
PeriodsOf(s) == IF s = "verify_fix" THEN {"weekly", "monthly"} ELSE {"daily", "weekly", "monthly"}

\* Tables the service may be configured with: the usual one, one with low
\* minimums and no entry for monthly, one with an entry for monthly only.
MinDataPointsTables ==
  {MinDataPointsTable, [daily |-> 3, weekly |-> 2], [monthly |-> 1]}

\* The stored items the verification entry points are run against.
VerifyItemRows ==
  [created_at : {3, 5, 19}, quantity : {1}, status : {"delivered", "pending"}]

VerifyInit ==
  /\ script \in Verifiers
  /\ start_date = START_DATE
  /\ end_date = START_DATE
  /\ initial_stock = INITIAL_STOCK
  /\ users = {1}
  /\ paired = FALSE
  /\ RunStart(initial_stock)
  /\ store = EmptyStore
  /\ stored_before = store
  /\ others = NoOthers
  /\ run_no = 1
  /\ tape = <<>>
  /\ tape_pos = 0
  /\ first_run = <<>>
  /\ items \in UNION {[1 .. n -> VerifyItemRows] : n \in 0 .. MaxItems}
  /\ ReadStart
  /\ min_data_points \in MinDataPointsTables
  /\ medicine_exists \in BOOLEAN
  /\ failing \in {{}, {"daily"}, {"weekly"}}

SpecVerify ==
  VerifyInit /\ [][VerifyPeriod \/ CheckMedicine \/ CheckPeriod \/ VerifyFix]_vars

\* The store a reading script finds: up to MaxItems order items.
ReadInit ==
  /\ script \in Readers
  /\ start_date = START_DATE
  /\ end_date = START_DATE
  /\ initial_stock = INITIAL_STOCK
  /\ users = {1}
  /\ paired = FALSE
  /\ RunStart(initial_stock)
  /\ run_no = 1
  /\ tape = <<>>
  /\ tape_pos = 0
  /\ first_run = <<>>
  /\ items \in UNION {[1 .. n -> ItemRows] : n \in 0 .. MaxItems}
  /\ ReadStart
  /\ store = EmptyStore
  /\ stored_before = store
  /\ others = NoOthers
  /\ VerifierDefaults

(***************************************************************************)
(* The same generation run twice, each time against the same empty store.  *)
(***************************************************************************)
\* The second invocation of the script: the store is as it was before the
\* first, and a seeded generator starts its sequence again.
SecondRun ==
  /\ script \in Generators
  /\ paired
  /\ run_no = 1
  /\ pc = "done"
  /\ first_run' = [orders |-> orders, orders_created |-> orders_created,
                   current_stock |-> current_stock]
  /\ run_no' = 2
  /\ tape_pos' = 0
  /\ pc' = "start"
  /\ sales_reps' = <<>>
  /\ current_date' = start_date
  /\ current_stock' = initial_stock
  /\ daily_sales' = 0
  /\ orders_today' = 0
  /\ remaining_sales' = 0
  /\ order_num' = 0
  /\ orders_created' = 0
  /\ order_counter' = 0
  /\ orders' = <<>>
  /\ ledger' = <<>>
  /\ medicine_stock' = 0
  /\ day_start_stock' = initial_stock
  /\ order_items' = <<>>
  /\ store' = EmptyStore
  /\ outcome' = "running"
  /\ UNCHANGED <<failed_day, substituted, others>>
  /\ UNCHANGED <<cfgVars, tape, items, readVars>>

\* A pair of runs over one low-demand day, with two users to select from.
PairInit ==
  /\ script \in Generators
  /\ start_date = 157
  /\ end_date = 157
  /\ initial_stock = INITIAL_STOCK
  /\ users = UserIds
  /\ paired = TRUE
  /\ RunStart(initial_stock)
  /\ store = EmptyStore
  /\ stored_before = store
  /\ others = NoOthers
  /\ VerifierDefaults
  /\ run_no = 1
  /\ tape = <<>>
  /\ tape_pos = 0
  /\ first_run = <<>>
  /\ items = <<>>
  /\ ReadStart

PairNext == GenNext \/ SecondRun

SpecPair == PairInit /\ [][PairNext]_vars

(***************************************************************************)
(* Generation runs against a store that holds earlier history and that may *)
(* fail: a query or a write raises sqlite3.Error.                          *)
(***************************************************************************)
\* A store with the rows of one order of medicine 3 made on the first day of
\* the source's range.
OldStore ==
  [orders |-> <<[number |-> <<START_DATE, 1>>, quantity |-> 1, day |-> START_DATE, user |-> 1]>>,
   order_items |-> <<[order |-> <<START_DATE, 1>>, quantity |-> 1]>>,
   ledger |-> <<Movement("out", -1, START_DATE, <<START_DATE, 1>>)>>]

PriorStores == {EmptyStore, OldStore}

\* One day, two days, and a range whose end is before its start.
FaultRanges == {<<157, 157>>, <<157, 158>>, <<158, 157>>}

FaultInit ==
  /\ script \in Generators
  /\ \E range \in FaultRanges : start_date = range[1] /\ end_date = range[2]
  /\ initial_stock \in {8, INITIAL_STOCK}
  /\ users = {1}
  /\ paired = FALSE
  /\ RunStart(initial_stock)
  /\ store \in PriorStores
  /\ stored_before = store
  /\ others = NoOthers
  /\ run_no = 1
  /\ tape = <<>>
  /\ tape_pos = 0
  /\ first_run = <<>>
  /\ items = <<>>
  /\ ReadStart
  /\ VerifierDefaults

\* get_available_sales_reps / get_available_users raises inside: the except
\* clause returns (None, []), and the caller returns without generating.
GetUsersFails ==
  /\ script \in Generators
  /\ pc = UsersAt(script)
  /\ outcome' = "no_users"
  /\ pc' = "done"
  /\ UNCHANGED <<order_items, store, failed_day, substituted, others>>
  /\ UNCHANGED <<cfgVars, runVarsButPc, pairVars, items, readVars>>

\* get_next_stock_movement_id raises inside: the except clause returns
\* random.randint(10000, 99999) and the run goes on with it.
GetNextStockMovementIdFails ==
  /\ script \in Generators
  /\ pc = "next_id"
  /\ substituted' = TRUE
  /\ pc' = "loop"
  /\ UNCHANGED <<order_items, store, outcome, failed_day, others>>
  /\ UNCHANGED <<cfgVars, runVarsButPc, pairVars, items, readVars>>

\* Whether the next step of the run executes a statement on the run's
\* connection: the reorder's INSERT, an order's INSERTs, or the UPDATE and
\* the commit.
WritesNext ==
  \/ pc = "stock_check" /\ ReorderNeeded(current_stock, daily_sales)
  \/ /\ pc = "orders"
     /\ order_num < orders_today
     /\ ~LoopBreak(script, remaining_sales, current_stock)
     /\ ~LimitReached(script, orders_created)
  \/ pc = "update"

\* cursor.execute or conn.commit raises: the except clause of the run prints
\* the error and rolls the connection back, and the function returns.
WriteFails ==
  /\ script \in Generators
  /\ WritesNext
  /\ outcome' = "failed"
  /\ failed_day' = <<current_date>>
  /\ pc' = "done"
  /\ UNCHANGED <<order_items, store, substituted, others>>
  /\ UNCHANGED <<cfgVars, runVarsButPc, pairVars, items, readVars>>

FaultNext == GetUsersFails \/ GetNextStockMovementIdFails \/ WriteFails

SpecFault == FaultInit /\ [][GenNext \/ FaultNext]_vars

\* The exit status of the process: the scripts never call sys.exit, so it is
\* 1 when an exception leaves the entry point and 0 otherwise.
ExitStatus == IF outcome = "raised" THEN 1 ELSE 0

\* Whether the script has printed that generation completed.  clean prints
\* it after generate_amoxicillin_history returns, however it returned; hist
\* prints it when create_historical_orders returned True.
Announced ==
  /\ outcome \in {"completed", "failed", "no_users"}
  /\ script = "clean" \/ outcome = "completed"

(***************************************************************************)
(* Generation runs against a store that also holds rows of other products. *)
(***************************************************************************)
\* sales_rep_id of an order none of whose users has one of the three roles.
NoRep == 0

\* One order of another product, with its item, its status history and its
\* stock movement, created by the given sales representative.
OthersOf(rep) ==
  [orders |-> <<[number |-> <<START_DATE, 9>>, sales_rep |-> rep]>>,
   order_items |-> <<[order |-> <<START_DATE, 9>>, quantity |-> 1]>>,
   history |-> <<[order |-> <<START_DATE, 9>>]>>,
   ledger |-> <<Movement("out", -1, START_DATE, <<START_DATE, 9>>)>>]

OtherStores == {NoOthers} \cup {OthersOf(rep) : rep \in {NoRep, 1, 2}}

\* One low-demand day (Sunday 2020-06-07), against every prior store.
ClearInit ==
  /\ script \in Generators
  /\ start_date = 158
  /\ end_date = 158
  /\ initial_stock = INITIAL_STOCK
  /\ users = {1}
  /\ paired = FALSE
  /\ RunStart(initial_stock)
  /\ store \in PriorStores
  /\ stored_before = store
  /\ others \in OtherStores
  /\ run_no = 1
  /\ tape = <<>>
  /\ tape_pos = 0
  /\ first_run = <<>>
  /\ items = <<>>
  /\ ReadStart
  /\ VerifierDefaults

\* One of the DELETE statements raises: the except clause prints the error
\* and the run goes on with what the statements before it have deleted.
ClearHistoryFails ==
  /\ script \in Generators
  /\ pc = ClearAt(script)
  /\ \E k \in 0 .. 3 :
       /\ store' = ClearedStore(k, script, ClearedReps(script, sales_reps), store)
       /\ others' = ClearedOthers(k, ClearedReps(script, sales_reps), others)
  /\ pc' = AfterClear(script)
  /\ UNCHANGED <<order_items, outcome, failed_day, substituted>>
  /\ UNCHANGED <<cfgVars, runVarsButPc, pairVars, items, readVars>>

SpecClear == ClearInit /\ [][GenNext \/ ClearHistoryFails]_vars

(***************************************************************************)
(* The generator run again on the store its first run has left.            *)
(***************************************************************************)
\* The second invocation of the script, on the store as the first has
\* committed it; a seeded generator starts its sequence again.
Rerun ==
  /\ script \in Generators
  /\ paired
  /\ run_no = 1
  /\ pc = "done"
  /\ first_run' = [orders |-> orders, orders_created |-> orders_created,
                   current_stock |-> current_stock]
  /\ run_no' = 2
  /\ tape_pos' = 0
  /\ pc' = "start"
  /\ sales_reps' = <<>>
  /\ current_date' = start_date
  /\ current_stock' = initial_stock
  /\ daily_sales' = 0
  /\ orders_today' = 0
  /\ remaining_sales' = 0
  /\ order_num' = 0
  /\ orders_created' = 0
  /\ order_counter' = 0
  /\ orders' = <<>>
  /\ ledger' = <<>>
  /\ medicine_stock' = 0
  /\ day_start_stock' = initial_stock
  /\ order_items' = <<>>
  /\ outcome' = "running"
  /\ UNCHANGED <<store, failed_day, substituted, others>>
  /\ UNCHANGED <<cfgVars, tape, items, readVars>>

\* One low-demand day (Sunday 2020-06-07).  clean: four users have one of
\* the roles, one more than the query's LIMIT.
RerunInit ==
  /\ \/ script = "clean" /\ users = RoleUserIds
     \/ script = "hist" /\ users = {1}
  /\ start_date = 158
  /\ end_date = 158
  /\ initial_stock = INITIAL_STOCK
  /\ paired = TRUE
  /\ RunStart(initial_stock)
  /\ store = EmptyStore
  /\ stored_before = store
  /\ others = NoOthers
  /\ run_no = 1
  /\ tape = <<>>
  /\ tape_pos = 0
  /\ first_run = <<>>
  /\ items = <<>>
  /\ ReadStart
  /\ VerifierDefaults

SpecRerun == RerunInit /\ [][GenNext \/ Rerun]_vars

Init == GenInit \/ ReadInit

\* A generation run whose every statement is executed in its turn: the
\* script is one sequential process, and each of its steps ends.
SpecLive == GenInit /\ [][GenNext]_vars /\ WF_vars(GenNext)

Next == GenNext \/ DebugNext \/ VerifyNext

Spec == Init /\ [][Next]_vars

(***************************************************************************)
(* Helpers of the properties.                                              *)
(***************************************************************************)
InGeneration == script \in Generators

\* The movements of the ledger of one type on one day, by position.
MovementsOn(type, day) ==
  {i \in DOMAIN ledger : ledger[i].type = type /\ ledger[i].day = day}

\* The current day's for loop has been set up (its reorder check is over).
DayUnderWay == InGeneration /\ pc \in {"orders", "day_end"}

RECURSIVE SumOrdersOn(_, _)
SumOrdersOn(n, day) ==
  IF n = 0 THEN 0
  ELSE SumOrdersOn(n - 1, day) + (IF orders[n].day = day THEN orders[n].quantity ELSE 0)

(***************************************************************************)
(* C1.  In every state of a generation run, after each reorder and after   *)
(* each created order, for every draw, every initial stock >= 0 and every  *)
(* range, the simulated on-hand stock is >= 0.                             *)
(***************************************************************************)
C1_StockNeverNegative == InGeneration => current_stock >= 0

\* A run that started with no stock has reordered and has created orders.
C1_Witness ==
  /\ InGeneration
  /\ initial_stock = 0
  /\ MovementsOn("in", start_date) # {}
  /\ MovementsOn("out", start_date) # {}
  /\ current_stock < REORDER_QUANTITY

(***************************************************************************)
(* C7.  A reorder movement is appended only on a day whose starting        *)
(* on-hand stock is <= the reorder point, at most once per day, and before *)
(* the first sale movement of that day.                                    *)
(***************************************************************************)
C7_ReorderDiscipline ==
  InGeneration =>
    /\ (DayUnderWay /\ MovementsOn("in", current_date) # {})
         => day_start_stock <= REORDER_POINT
    /\ \A i, j \in DOMAIN ledger :
         (ledger[i].type = "in" /\ ledger[j].type = "in" /\ ledger[i].day = ledger[j].day)
           => i = j
    /\ \A i, j \in DOMAIN ledger :
         (ledger[i].type = "out" /\ ledger[j].type = "in" /\ ledger[i].day = ledger[j].day)
           => j < i

\* A day with sales and no reorder is followed by a day that reorders and
\* then sells.
C7_Witness ==
  /\ InGeneration
  /\ current_date > start_date
  /\ MovementsOn("in", start_date) = {}
  /\ MovementsOn("out", start_date) # {}
  /\ MovementsOn("in", current_date) # {}
  /\ MovementsOn("out", current_date) # {}

(***************************************************************************)
(* C8.  On every simulated day whose starting on-hand stock is at or below *)
(* the reorder point, a reorder movement of the fixed reorder quantity is  *)
(* appended and on-hand is increased by it before any sale of that day;    *)
(* with initial stock 50, reorder point 200 and reorder quantity 1000 a    *)
(* reorder fires on day 1 and on-hand at the end of day 1 is 1050 minus    *)
(* that day's sales.                                                       *)
(***************************************************************************)
C8_ReorderAtOrBelowPoint ==
  DayUnderWay =>
    /\ day_start_stock <= REORDER_POINT
         => \E i \in MovementsOn("in", current_date) :
              ledger[i].quantity = REORDER_QUANTITY
    /\ (initial_stock = 50 /\ current_date = start_date /\ pc = "day_end")
         => current_stock = 1050 - SumOrdersOn(Len(orders), current_date)

(***************************************************************************)
(* C9.  In every state of a generation run the number of created orders is *)
(* <= the configured maximum order count; once the count has reached the   *)
(* maximum no further order is created.                                    *)
(***************************************************************************)
C9_OrderCeiling == InGeneration => orders_created <= MaxOrders

(***************************************************************************)
(* Helpers of the properties about the reading scripts.                    *)
(***************************************************************************)
GroupingDone == script = "debug_grouping" /\ pc = "done"

\* The stored rows that are realized demand, by position.
RealizedRows ==
  {i \in DOMAIN items : items[i].status \in {"confirmed", "processing", "shipped", "delivered"}}

RECURSIVE SumRealized(_)
\* The summed quantity of the realized rows among the first n stored rows.
SumRealized(n) ==
  IF n = 0 THEN 0
  ELSE SumRealized(n - 1) + (IF n \in RealizedRows THEN items[n].quantity ELSE 0)

RECURSIVE SumSeries(_, _)
\* The summed quantity of the first n points of a series.
SumSeries(series, n) == IF n = 0 THEN 0 ELSE SumSeries(series, n - 1) + series[n].quantity

\* Consecutive points of the series are exactly one step apart.
Contiguous(series, step) ==
  \A k \in 1 .. Len(series) - 1 : series[k + 1].date = series[k].date + step

\* The period of every realized row is a point of the series.
CoversRealized(series, freq) ==
  \A i \in RealizedRows :
    \E k \in DOMAIN series : series[k].date = ToPeriod(freq, items[i].created_at)

\* The number of weeks from the week of the first realized row to the week
\* of the last.
WeeksSpanned ==
  LET weeks == {WeekPeriod(items[i].created_at) : i \in RealizedRows}
      lo == CHOOSE w \in weeks : \A x \in weeks : w <= x
      hi == CHOOSE w \in weeks : \A x \in weeks : x <= w
  IN  ((hi - lo) \div 7) + 1

\* The stored rows without the one at position i.
WithoutRow(i) == [k \in 1 .. Len(items) - 1 |-> IF k < i THEN items[k] ELSE items[k + 1]]

(***************************************************************************)
(* C2.  For every granularity the quantities of the aggregated, reindexed  *)
(* series sum to the summed quantity of the realized records; the weekly   *)
(* group-then-reindex path loses no quantity.                              *)
(***************************************************************************)
C2_SumPreserved ==
  (GroupingDone /\ RealizedRows # {}) =>
    /\ SumSeries(daily_data, Len(daily_data)) = SumRealized(Len(items))
    /\ SumSeries(weekly_data, Len(weekly_data)) = SumRealized(Len(items))
    /\ SumSeries(reindexed, Len(reindexed)) = SumRealized(Len(items))

(***************************************************************************)
(* C3.  The aggregated series has no gaps and no duplicates: consecutive   *)
(* period starts are exactly one granularity step apart, and every period  *)
(* boundary between the first and the last realized record is present.     *)
(***************************************************************************)
C3_NoGaps ==
  (GroupingDone /\ RealizedRows # {}) =>
    /\ Contiguous(daily_data, 1)
    /\ CoversRealized(daily_data, "D")
    /\ Contiguous(reindexed, 7)
    /\ CoversRealized(reindexed, "W")

(***************************************************************************)
(* C4.  The length of the aggregated series is the number of periods the   *)
(* records span; when all realized records fall in one period the result   *)
(* has exactly one point, whose quantity is their sum.                     *)
(***************************************************************************)
C4_LengthIsPeriodsSpanned ==
  (GroupingDone /\ RealizedRows # {}) =>
    /\ Len(reindexed) = WeeksSpanned
    /\ WeeksSpanned = 1 =>
         (Len(reindexed) = 1 /\ reindexed[1].quantity = SumRealized(Len(items)))

(***************************************************************************)
(* C5.  With no realized demand record the aggregated series is empty and  *)
(* the verifier reports 0 periods, 0% non-zero and "insufficient" for      *)
(* every granularity, without dividing by zero and without an error        *)
(* outcome.                                                                *)
(***************************************************************************)
C5_EmptySeriesReport ==
  (script = "verify" /\ RealizedRows = {}) =>
    \A k \in DOMAIN reports :
      /\ reports[k].total = 0
      /\ reports[k].non_zero = 0
      /\ reports[k].percent = 0
      /\ ~reports[k].percent_is_nan
      /\ reports[k].outcome = "insufficient"
      /\ ~reports[k].divided_by_zero

(***************************************************************************)
(* C6.  Only order items whose order status is confirmed, processing,      *)
(* shipped or delivered contribute to the aggregated series: without any   *)
(* one pending or cancelled row the script's output is the same.           *)
(***************************************************************************)
C6_OnlyRealizedContribute ==
  GroupingDone =>
    \A i \in DOMAIN items :
      items[i].status \in {"pending", "cancelled"}
        => <<filtered_items, daily_data, weekly_data, reindexed>> = debug_grouping(WithoutRow(i))

\* The run has grouped a realized row while the store also holds a pending
\* row of another week.
C6_Witness ==
  /\ GroupingDone
  /\ weekly_data # <<>>
  /\ \E i, j \in DOMAIN items :
       /\ items[i].status = "pending"
       /\ items[j].status = "delivered"
       /\ WeekPeriod(items[i].created_at) # WeekPeriod(items[j].created_at)

(***************************************************************************)
(* C10.  Generation is deterministic in its seed and date range: two runs  *)
(* started from identical empty stores produce the same sequence of        *)
(* orders, the same order count and the same final on-hand stock.          *)
(***************************************************************************)
C10_Reproducible ==
  (InGeneration /\ paired /\ run_no = 2 /\ pc = "done") =>
    /\ orders = first_run.orders
    /\ orders_created = first_run.orders_created
    /\ current_stock = first_run.current_stock

(***************************************************************************)
(* Helpers of the properties about failing stores.                         *)
(***************************************************************************)
\* The orders the run made on the days before day d, and their movements.
OrdersBefore(d) == SelectSeq(orders, LAMBDA o : o.day < d)
LedgerBefore(d) == SelectSeq(ledger, LAMBDA m : m.day < d)

(***************************************************************************)
(* C11.  When a write fails in the middle of simulated day d, the store    *)
(* afterwards holds the complete order, order-item and stock-movement      *)
(* records of every day before d and no record of day d.                   *)
(***************************************************************************)
C11_PerDayBatches ==
  (InGeneration /\ outcome = "failed" /\ failed_day[1] \in start_date .. end_date) =>
    LET d == failed_day[1]
    IN  /\ store.orders = OrdersBefore(d)
        /\ store.order_items = SubSeq(order_items, 1, Len(OrdersBefore(d)))
        /\ store.ledger = LedgerBefore(d)

(***************************************************************************)
(* C15.  A generation run whose end date is before its start date is       *)
(* rejected before any write: the history in the store is not cleared, no  *)
(* order or movement is inserted, the stored current stock keeps its value *)
(* and the run does not complete.                                          *)
(***************************************************************************)
C15_InvalidRangeRejected ==
  (InGeneration /\ end_date < start_date) =>
    /\ store = stored_before
    /\ orders = <<>>
    /\ ledger = <<>>
    /\ medicine_stock = 0
    /\ outcome # "completed"

(***************************************************************************)
(* C16.  When the store fails at a store access of a generation run (the   *)
(* users query, the next stock-movement id, a write), the run ends with a  *)
(* non-zero exit status; it never goes on with a substituted value and     *)
(* never reports completion.                                               *)
(***************************************************************************)
C16_StoreUnavailableSurfaced ==
  InGeneration =>
    /\ ~substituted
    /\ outcome \in {"failed", "no_users"} => (ExitStatus # 0 /\ ~Announced)

(***************************************************************************)
(* C17.  After a run that reaches the end of its range without a failing   *)
(* write, the stored current stock is the simulation's final on-hand       *)
(* value, committed together with the run's orders, items and movements:   *)
(* until then the store shows neither the rows nor the new stock.          *)
(***************************************************************************)
C17_StockPersistedWithRun ==
  InGeneration =>
    /\ outcome = "completed" =>
         /\ medicine_stock = current_stock
         /\ store.orders = orders
         /\ store.order_items = order_items
         /\ store.ledger = ledger
    /\ outcome # "completed" =>
         /\ medicine_stock = 0
         /\ store \in {stored_before, EmptyStore}

\* A run over two days has reordered, sold and committed.
C17_Witness ==
  /\ InGeneration
  /\ outcome = "completed"
  /\ end_date > start_date
  /\ stored_before = OldStore
  /\ MovementsOn("in", start_date) # {}
  /\ MovementsOn("out", end_date) # {}
  /\ store.ledger = ledger
  /\ medicine_stock = current_stock

(***************************************************************************)
(* Helpers of the properties about the orders of a run.                    *)
(***************************************************************************)
\* The run's order items as a reading script finds them once they are
\* committed: every generated order has the status 'delivered'.
GeneratedItems ==
  [i \in DOMAIN orders |->
     [created_at |-> orders[i].day, quantity |-> order_items[i].quantity,
      status |-> "delivered"]]

\* The 'out' movements of the run, in the order they were inserted.
OutMovements == SelectSeq(ledger, LAMBDA m : m.type = "out")

RECURSIVE SumLedger(_)
\* The summed signed quantity of the first n movements.
SumLedger(n) == IF n = 0 THEN 0 ELSE SumLedger(n - 1) + ledger[n].quantity

(***************************************************************************)
(* C12.  On every simulated day processed before the order ceiling is hit  *)
(* at least one order of quantity >= 1 is created: after the day's reorder *)
(* check on-hand is >= 1 and the day's demand is >= 1.  Daily aggregation  *)
(* over a completed range has a quantity >= 1 on every day of it.  With    *)
(* initial stock 5000 no reorder fires.                                    *)
(***************************************************************************)
C12_OrderEveryDay ==
  InGeneration =>
    /\ (pc = "orders" /\ order_num = 0) => (current_stock >= 1 /\ daily_sales >= 1)
    /\ (pc = "day_end" /\ ~LimitReached(script, orders_created))
         => \E i \in DOMAIN orders : orders[i].day = current_date /\ orders[i].quantity >= 1
    /\ (outcome = "completed" /\ ~LimitReached(script, orders_created))
         => LET daily == GroupByPeriod(FilterItems(GeneratedItems), "D")
            IN  /\ Len(daily) = end_date - start_date + 1
                /\ \A k \in DOMAIN daily :
                     daily[k].date = start_date + k - 1 /\ daily[k].quantity >= 1
    /\ initial_stock = INITIAL_STOCK => \A i \in DOMAIN ledger : ledger[i].type # "in"

\* A run that started without stock has completed a range of several days
\* below the ceiling.
C12_Witness ==
  /\ InGeneration
  /\ outcome = "completed"
  /\ initial_stock = 0
  /\ end_date > start_date
  /\ ~LimitReached(script, orders_created)

(***************************************************************************)
(* C18.  Every created order of quantity q decreases on-hand by q and      *)
(* appends one order item of quantity q and one stock movement of quantity *)
(* -q that refers to the order's number; the numbers of 'out' movements,   *)
(* of order items and of created orders are equal at all times.            *)
(***************************************************************************)
C18_OrderItemMovement ==
  InGeneration =>
    /\ Len(orders) = orders_created
    /\ Len(order_items) = orders_created
    /\ Len(OutMovements) = orders_created
    /\ \A i \in DOMAIN orders :
         /\ order_items[i] = [order |-> orders[i].number, quantity |-> orders[i].quantity]
         /\ OutMovements[i].quantity = -orders[i].quantity
         /\ OutMovements[i].ref = orders[i].number
         /\ OutMovements[i].day = orders[i].day
    /\ current_stock = initial_stock + SumLedger(Len(ledger))

\* A run has reordered and has created orders of different quantities.
C18_Witness ==
  /\ InGeneration
  /\ orders_created >= 3
  /\ MovementsOn("in", start_date) # {}
  /\ \E i, j \in DOMAIN orders : orders[i].quantity # orders[j].quantity

(***************************************************************************)
(* C19.  Every created order has a quantity from 1 to 5 that is at most    *)
(* the day's remaining demand and at most the on-hand stock at the moment  *)
(* it is created; the quantities of a day's orders sum to at most the      *)
(* day's demand, and no order is created while on-hand is 0.               *)
(***************************************************************************)
OrderQuantitiesBounded ==
  InGeneration =>
    /\ \A i \in DOMAIN orders : orders[i].quantity \in 1 .. 5
    /\ DayUnderWay =>
         /\ SumOrdersOn(Len(orders), current_date) = daily_sales - remaining_sales
         /\ SumOrdersOn(Len(orders), current_date) <= daily_sales

OrderCreatedWithinCaps ==
  (InGeneration /\ Len(orders') = Len(orders) + 1) =>
    LET q == orders'[Len(orders')].quantity
    IN  /\ q <= remaining_sales
        /\ q <= current_stock
        /\ current_stock > 0

C19_QuantitiesWithinCaps == []OrderQuantitiesBounded /\ [][OrderCreatedWithinCaps]_vars

\* An order was cut down to the demand that remained: its quantity is none
\* of the drawn ones.
C19_Witness ==
  /\ InGeneration
  /\ \E i \in DOMAIN orders : orders[i].quantity \notin RandintDraws
  /\ remaining_sales = 0
  /\ pc = "day_end"

(***************************************************************************)
(* C20.  The day's demand is split completely: at the end of every day on  *)
(* which stock is not exhausted and the order ceiling is not hit, the      *)
(* quantities of the day's orders sum to exactly the day's demand.         *)
(***************************************************************************)
C20_DemandSplitCompletely ==
  (InGeneration /\ pc = "day_end" /\ current_stock > 0
     /\ ~LimitReached(script, orders_created))
    => SumOrdersOn(Len(orders), current_date) = daily_sales

(***************************************************************************)
(* Helpers of the properties about the verification entry points.          *)
(***************************************************************************)
\* The number of periods of one type that hold a realized record.
PeriodsWithDemand(period_type) ==
  Cardinality({ToPeriod(Frequency(period_type), items[i].created_at) : i \in RealizedRows})

\* The report of the script for a period type, if there is one.
ReportsFor(period_type) == {k \in DOMAIN reports : reports[k].period = period_type}

(***************************************************************************)
(* C13.  For a non-empty series the verifier declares 'sufficient' exactly *)
(* when the number of periods with quantity > 0 is at least the minimum    *)
(* configured for the granularity, or 30 when the table has no entry for   *)
(* it, and 'insufficient' otherwise; periods of quantity 0 do not count.   *)
(***************************************************************************)
C13_SufficientIffEnoughNonZero ==
  script = "verify" =>
    \A k \in DOMAIN reports :
      reports[k].total > 0 =>
        LET period_type == reports[k].period
            minimum == IF period_type \in DOMAIN min_data_points
                       THEN min_data_points[period_type] ELSE 30
        IN  /\ reports[k].outcome \in {"sufficient", "insufficient"}
            /\ reports[k].outcome = "sufficient" <=> PeriodsWithDemand(period_type) >= minimum

\* The verifier has found a series with empty periods sufficient, another
\* one insufficient, and has judged a period type the table has no entry for.
C13_Witness ==
  /\ script = "verify"
  /\ pc = "done"
  /\ "monthly" \notin DOMAIN min_data_points
  /\ \E k \in DOMAIN reports :
       /\ reports[k].outcome = "sufficient"
       /\ reports[k].total > reports[k].non_zero
  /\ \E k \in DOMAIN reports :
       /\ reports[k].outcome = "insufficient"
       /\ reports[k].total > reports[k].non_zero
       /\ reports[k].non_zero > 0

(***************************************************************************)
(* C14.  No verification entry point raises: whatever the store holds      *)
(* (medicine 3 missing, a preparation that fails, an empty series), it     *)
(* returns with a report, and a failure for one period type does not keep  *)
(* the other period types from being reported.                             *)
(***************************************************************************)
C14_VerifierNeverRaises ==
  (script \in Verifiers /\ pc = "done") =>
    /\ outcome # "raised"
    /\ \A period_type \in PeriodsOf(script) \ failing :
         \E k \in ReportsFor(period_type) :
           RealizedRows # {} => reports[k].outcome # "error"


(***************************************************************************)
(* C21.  Clearing history for the product deletes only that product's      *)
(* records: every order, order item, order status history and stock        *)
(* movement of another product is unchanged by the clear step, and no      *)
(* order item of another product is left referring to a deleted order.     *)
(***************************************************************************)
\* Every order item of another product refers to an order the store holds.
OtherItemsHaveOrders ==
  \A i \in DOMAIN others.order_items :
    \E j \in DOMAIN others.orders :
      others.orders[j].number = others.order_items[i].order

\* A step of the clearing.
ClearStep == InGeneration /\ pc = ClearAt(script) /\ pc' = AfterClear(script)

C21_ClearKeepsOtherProducts ==
  /\ [](InGeneration => OtherItemsHaveOrders)
  /\ [][ClearStep => others' = others]_vars

(***************************************************************************)
(* C22.  The generation loop processes the days of the range in strictly   *)
(* ascending order, each day exactly once, and terminates for every finite *)
(* range: it eventually reaches the final stock update, either after the   *)
(* last day of the range or after the order ceiling is hit.                *)
(***************************************************************************)
\* The rows of the run are in the order of their days, a day is begun only
\* inside the range, and the loop is left past the range's end or at the
\* ceiling.
DaysInOrder ==
  /\ \A i, j \in DOMAIN orders : i < j => orders[i].day <= orders[j].day
  /\ \A i, j \in DOMAIN ledger : i < j => ledger[i].day <= ledger[j].day
  /\ pc \in {"stock_check", "orders", "day_end"} => current_date \in start_date .. end_date
  /\ pc \in {"update", "done"} =>
       \/ current_date = Max2(start_date, end_date + 1)
       \/ LimitReached(script, orders_created)

\* A day is begun at the head of the while loop only; the date changes only
\* when an iteration of the while loop ends, and then to the following day.
DayProcessedOnce ==
  /\ pc' = "stock_check" => pc = "loop"
  /\ pc = "day_end" /\ pc' = "loop" => current_date' = current_date + 1
  /\ ~(pc = "day_end" /\ pc' = "loop") => current_date' = current_date

\* The run has made its final stock update.
StockUpdated == pc = "done" /\ outcome = "completed" /\ medicine_stock = current_stock

C22_DaysInOrderAndTermination ==
  /\ []DaysInOrder
  /\ [][DayProcessedOnce]_vars
  /\ <>StockUpdated

\* A run over two days has made its final stock update past the second day.
C22_Witness ==
  /\ StockUpdated
  /\ end_date > start_date
  /\ current_date = end_date + 1
  /\ \E i, j \in DOMAIN orders : orders[i].day = start_date /\ orders[j].day = end_date

(***************************************************************************)
(* C23.  Stock ledger conservation: in every state of a generation run,    *)
(* on-hand equals the initial stock plus the sum of the signed quantities  *)
(* of all stock movements appended so far in the run, where every 'in'     *)
(* (reorder) movement has a quantity > 0 and every 'out' (sale) movement   *)
(* has a quantity < 0.                                                     *)
(***************************************************************************)
C23_LedgerConservation ==
  InGeneration =>
    /\ current_stock = initial_stock + SumLedger(Len(ledger))
    /\ \A i \in DOMAIN ledger :
         /\ ledger[i].type \in {"in", "out"}
         /\ ledger[i].type = "in" => ledger[i].quantity > 0
         /\ ledger[i].type = "out" => ledger[i].quantity < 0

\* A finished run whose ledger holds a reorder followed by sales.
C23_Witness ==
  /\ InGeneration
  /\ pc = "done"
  /\ Len(ledger) >= 3
  /\ ledger[1].type = "in"
  /\ \E i \in DOMAIN ledger : ledger[i].type = "out" /\ ledger[i].quantity < -1

(***************************************************************************)
(* C24.  Within one generation run every created order receives an order   *)
(* number distinct from those of all orders created earlier in the same    *)
(* run, including orders inserted on the writing connection but not yet    *)
(* committed when the next number is derived.                              *)
(***************************************************************************)
C24_OrderNumbersDistinct ==
  InGeneration =>
    \A i, j \in DOMAIN orders : i # j => orders[i].number # orders[j].number

(***************************************************************************)
(* C25.  Re-running generation on a store that holds the output of an      *)
(* earlier run leaves exactly the new run's orders for the product: the    *)
(* clear step removes every order created by the earlier run regardless of *)
(* which sales representatives are selected in the new run, so no order    *)
(* number of the new run collides with a surviving order of the earlier    *)
(* run.                                                                    *)
(***************************************************************************)
\* The second run is past its clear step.
SecondRunCleared == InGeneration /\ run_no = 2 /\ pc \notin {"start", ClearAt(script)}

C25_RerunLeavesNewRunOnly ==
  SecondRunCleared =>
    /\ pc # "done" => store.orders = <<>>
    /\ pc # "done" =>
         \A i \in DOMAIN orders, j \in DOMAIN store.orders :
           orders[i].number # store.orders[j].number
    /\ pc = "done" => store.orders = orders

=============================================================================
